---- MODULE Spec2Model ----
(***************************************************************************)
(* Model of pygatt.classes.BLEDevice: the UUID -> handle cache             *)
(* (get_handle), subscribe, char_write and receive_notification, run by    *)
(* several threads that share one device object and its threading.Lock.   *)
(* Every access to shared state is a step of its own, so that the races    *)
(* the code allows are behaviours of the model.                            *)
(***************************************************************************)
EXTENDS Integers, Sequences, FiniteSets, TLC

\* ------------------------------------------------------------------ bounds
NumThreads == 2
\* calls of subscribe, char_write and get_handle started in one behaviour
MaxCalls == 2
\* notifications the transport delivers in one behaviour
MaxNotifications == 1
\* disconnects in one behaviour
MaxDisconnects == 1

\* ------------------------------------------------------------------ inputs
Threads == 1..NumThreads
None == "None"
UUIDs == {"u1", "u2"}
\* the handles the peer assigns; fixed for one connection
DeviceHandle == [u \in UUIDs |-> IF u = "u1" THEN 16 ELSE 32]
Handles == {DeviceHandle[u] : u \in UUIDs}
CallbackFns == {"cb1", "cb2"}
Values == {"AABB"}
WriteValues == {<<0, 255>>}

VARIABLES
    characteristics,      \* self._characteristics : uuid -> handle
    callbacks,            \* self._callbacks : handle -> set of callbacks
    subscribed_handlers,  \* self._subscribed_handlers : handle -> bytes
    lock,                 \* self._lock : Unlocked or the thread that holds it
    pc,                   \* position of each thread
    frame,                \* arguments, locals and outcome of each thread's call
    lastWrite,            \* the most recent call of char_write_handle
    hist,                 \* per value handle: what subscribe has done so far
    session,              \* the connection session: disconnects, discoveries
    ncalls,               \* calls of the API started so far
    nnotif                \* notifications delivered so far

vars == <<characteristics, callbacks, subscribed_handlers, lock, pc, frame,
          lastWrite, hist, session, ncalls, nnotif>>

registry == <<characteristics, callbacks, subscribed_handlers>>
transport == <<lastWrite, hist>>
budget == <<session, ncalls, nnotif>>

\* dict.get(key, None); None is the empty byte string where bytes are
\* expected and handle 0 where a handle is expected
NoConfig == <<>>
NoHandle == 0
\* threading.Lock(): the value of lock while no thread holds it
Unlocked == 0
Get(f, k, none) == IF k \in DOMAIN f THEN f[k] ELSE none

\* d[k] = v on a dict
Put(f, k, v) == [x \in DOMAIN f \cup {k} |-> IF x = k THEN v ELSE f[x]]

\* a table discover_characteristics can return: the characteristics the
\* peer shows at that moment
TableOf(S) == [u \in S |-> DeviceHandle[u]]
DiscoverResults == {TableOf(S) : S \in SUBSET UUIDs}

\* no call of char_write_handle yet
NoWrite ==
    [by |-> None, uuid |-> None, indication |-> FALSE, handle |-> NoHandle,
     value |-> <<>>, wait |-> FALSE, ok |-> FALSE]

\* no subscribe has left the critical section for this handle yet
NoSub ==
    [indication |-> FALSE, ok |-> FALSE, nwrites |-> 0, before |-> NoConfig,
     any |-> FALSE]

NoHist ==
    [writes |-> 0, changes |-> 0, asked |-> {}, last |-> NoSub,
     lastOk |-> NoConfig, added |-> {}, readded |-> {}, registered |-> {}]

\* a session in which nothing has been discovered yet
NewSession(n) == [n |-> n, discovered |-> FALSE]

NoFrame ==
    [op |-> None, uuid |-> None, callback |-> None, indication |-> FALSE,
     handle |-> NoHandle, value |-> None, data |-> <<>>, wait |-> FALSE,
     value_handle |-> NoHandle,
     missed |-> None, ndiscover |-> 0, table |-> TableOf({}),
     returned |-> NoHandle,
     before |-> NoConfig, after |-> NoConfig, prev |-> NoSub,
     nwrites |-> 0, wrote |-> NoWrite,
     registered |-> {}, readded |-> {}, invoked |-> <<>>,
     outer |-> <<>>,
     result |-> None]

Init ==
    /\ characteristics = TableOf({})
    /\ callbacks = [h \in {} |-> {}]
    /\ subscribed_handlers = [h \in {} |-> <<>>]
    /\ lock = Unlocked
    /\ pc = [t \in Threads |-> "idle"]
    /\ frame = [t \in Threads |-> NoFrame]
    /\ lastWrite = NoWrite
    /\ hist = [h \in Handles |-> NoHist]
    /\ session = NewSession(0)
    /\ ncalls = 0
    /\ nnotif = 0

\* ------------------------------------------------------- values of the code
ConfigHandleSame(value_handle) == value_handle
\* characteristic_config_handle = value_handle + 1
ConfigHandle(value_handle) == value_handle + 1

PropertiesSwapped(indication) == <<IF indication THEN 1 ELSE 2, 0>>
\* properties = bytearray([0x2 if indication else 0x1, 0x0])
Properties(indication) == <<IF indication THEN 2 ELSE 1, 0>>

ConfigDiffersAlways(value_handle, properties) == TRUE
\* self._subscribed_handlers.get(value_handle, None) != properties
ConfigDiffers(value_handle, properties) ==
    Get(subscribed_handlers, value_handle, NoConfig) # properties

\* ------------------------------------------------------------------- calls
Free(t) == pc[t] \in {"idle", "done"} /\ frame[t].outer = <<>>
CanCall(t) == Free(t) /\ ncalls < MaxCalls

\* a call that starts with get_handle(uuid)
Enter(t, fr) ==
    /\ CanCall(t)
    /\ frame' = [frame EXCEPT ![t] = fr]
    /\ pc' = [pc EXCEPT ![t] = "gh_check"]
    /\ ncalls' = ncalls + 1
    /\ UNCHANGED <<registry, lock, transport, session, nnotif>>

CallSubscribe(t, uuid, callback, indication) ==
    Enter(t, [NoFrame EXCEPT !.op = "subscribe", !.uuid = uuid,
                  !.callback = callback, !.indication = indication])

CallCharWrite(t, uuid, data, wait) ==
    Enter(t, [NoFrame EXCEPT !.op = "char_write", !.uuid = uuid,
                  !.data = data, !.wait = wait])

CallGetHandle(t, uuid) ==
    Enter(t, [NoFrame EXCEPT !.op = "get_handle", !.uuid = uuid])

\* the transport calls receive_notification(handle, value)
CallReceive(t, handle, value) ==
    /\ Free(t) /\ nnotif < MaxNotifications
    /\ frame' = [frame EXCEPT ![t] = [NoFrame EXCEPT
                      !.op = "receive_notification",
                      !.handle = handle, !.value = value,
                      !.registered = hist[handle].registered,
                      !.readded = hist[handle].readded]]
    /\ pc' = [pc EXCEPT ![t] = "rn_lock"]
    /\ nnotif' = nnotif + 1
    /\ UNCHANGED <<registry, lock, transport, session, ncalls>>

\* an exception leaves the call with the frame as it is then
Raise(t, error, fr) ==
    /\ frame' = [frame EXCEPT ![t] = [fr EXCEPT !.result = error]]
    /\ pc' = [pc EXCEPT ![t] = "done"]

\* -------------------------------------------------------------- get_handle
GhCheckAlways(t) ==
    /\ pc[t] = "gh_check"
    /\ frame' = [frame EXCEPT ![t].missed =
                     IF frame[t].uuid \notin DOMAIN characteristics
                     THEN "miss" ELSE "hit"]
    /\ pc' = [pc EXCEPT ![t] = "gh_discover"]
    /\ UNCHANGED <<registry, lock, transport, budget>>

\* if uuid not in self._characteristics:
GhCheck(t) ==
    /\ pc[t] = "gh_check"
    /\ LET miss == frame[t].uuid \notin DOMAIN characteristics IN
       /\ frame' = [frame EXCEPT ![t].missed = IF miss THEN "miss" ELSE "hit"]
       /\ pc' = [pc EXCEPT ![t] = IF miss THEN "gh_discover" ELSE "gh_get"]
    /\ UNCHANGED <<registry, lock, transport, budget>>

\* the new mapping is merged into the cached one instead of replacing it
GhDiscoverMerges(t, table) ==
    /\ pc[t] = "gh_discover"
    /\ characteristics' =
           [u \in DOMAIN characteristics \cup DOMAIN table |->
                IF u \in DOMAIN table THEN table[u] ELSE characteristics[u]]
    /\ session' = [session EXCEPT !.discovered = TRUE]
    /\ frame' = [frame EXCEPT ![t].ndiscover = @ + 1, ![t].table = table]
    /\ pc' = [pc EXCEPT ![t] = "gh_get"]
    /\ UNCHANGED <<callbacks, subscribed_handlers, lock, transport, ncalls,
                   nnotif>>

\* self._characteristics = self.discover_characteristics()
\* the transport returns a table, which replaces the cached one
GhDiscover(t, table) ==
    /\ pc[t] = "gh_discover"
    /\ characteristics' = table
    /\ session' = [session EXCEPT !.discovered = TRUE]
    /\ frame' = [frame EXCEPT ![t].ndiscover = @ + 1, ![t].table = table]
    /\ pc' = [pc EXCEPT ![t] = "gh_get"]
    /\ UNCHANGED <<callbacks, subscribed_handlers, lock, transport, ncalls,
                   nnotif>>

\* self.discover_characteristics() raises; nothing is assigned
GhDiscoverFail(t) ==
    /\ pc[t] = "gh_discover"
    /\ Raise(t, "TransportError", [frame[t] EXCEPT !.ndiscover = @ + 1])
    /\ UNCHANGED <<registry, lock, transport, budget>>

\* a UUID that is not found ends the call silently instead of raising
GhGetSilent(t) ==
    /\ pc[t] = "gh_get"
    /\ LET characteristic == Get(characteristics, frame[t].uuid, NoHandle) IN
       IF characteristic = NoHandle \/ frame[t].op = "get_handle"
       THEN /\ frame' = [frame EXCEPT ![t].value_handle = characteristic,
                                      ![t].returned = characteristic,
                                      ![t].result = "ok"]
            /\ pc' = [pc EXCEPT ![t] = "done"]
       ELSE /\ frame' = [frame EXCEPT ![t].value_handle = characteristic]
            /\ pc' = [pc EXCEPT ![t] =
                   IF frame[t].op = "subscribe" THEN "sub_lock"
                                                ELSE "cw_write"]
    /\ UNCHANGED <<registry, lock, transport, budget>>

\* characteristic = self._characteristics.get(uuid); raise or return
GhGet(t) ==
    /\ pc[t] = "gh_get"
    /\ LET characteristic == Get(characteristics, frame[t].uuid, NoHandle) IN
       IF characteristic = NoHandle
       THEN Raise(t, "BLEError", frame[t])
       ELSE IF frame[t].op = "get_handle"
            THEN /\ frame' = [frame EXCEPT ![t].value_handle = characteristic,
                                           ![t].returned = characteristic,
                                           ![t].result = "ok"]
                 /\ pc' = [pc EXCEPT ![t] = "done"]
            ELSE /\ frame' = [frame EXCEPT ![t].value_handle = characteristic]
                 /\ pc' = [pc EXCEPT ![t] =
                        IF frame[t].op = "subscribe" THEN "sub_lock"
                                                     ELSE "cw_write"]
    /\ UNCHANGED <<registry, lock, transport, budget>>

\* --------------------------------------------------------------- subscribe
WriteRec(by, t, handle, value, wait, ok) ==
    [by |-> by, uuid |-> frame[t].uuid, indication |-> frame[t].indication,
     handle |-> handle, value |-> value, wait |-> wait, ok |-> ok]

\* what a subscribe call leaves behind when it exits the critical section
SubRec(t, nwrites, ok) ==
    [indication |-> frame[t].indication, ok |-> ok, nwrites |-> nwrites,
     before |-> frame[t].before, any |-> TRUE]

SubLockNoWait(t) ==
    /\ pc[t] = "sub_lock"
    /\ lock' = t
    /\ pc' = [pc EXCEPT ![t] = "sub_add"]
    /\ UNCHANGED <<registry, frame, transport, budget>>

\* a re-entrant lock: the thread that holds it may take it again
SubLockReentrant(t) ==
    /\ pc[t] = "sub_lock"
    /\ lock \in {Unlocked, t}
    /\ lock' = t
    /\ pc' = [pc EXCEPT ![t] = "sub_add"]
    /\ UNCHANGED <<registry, frame, transport, budget>>

\* with self._lock:  (entry)
SubLock(t) ==
    /\ pc[t] = "sub_lock"
    /\ lock = Unlocked
    /\ lock' = t
    /\ pc' = [pc EXCEPT ![t] = "sub_add"]
    /\ UNCHANGED <<registry, frame, transport, budget>>

SubAddDropped(t) ==
    /\ pc[t] = "sub_add"
    /\ pc' = [pc EXCEPT ![t] = "sub_cmp"]
    /\ UNCHANGED <<registry, lock, frame, transport, budget>>

\* what the handle's history keeps of an add of callback
Added(h, callback) ==
    [hist EXCEPT ![h].added = @ \cup {callback},
                 ![h].readded = @ \cup (Get(callbacks, h, {}) \cap {callback})]

\* the set of the handle is replaced by the new callback alone
SubAddReplaces(t) ==
    /\ pc[t] = "sub_add"
    /\ LET h == frame[t].value_handle IN
       IF frame[t].callback # None
       THEN /\ callbacks' = Put(callbacks, h, {frame[t].callback})
            /\ hist' = Added(h, frame[t].callback)
       ELSE UNCHANGED <<callbacks, hist>>
    /\ pc' = [pc EXCEPT ![t] = "sub_cmp"]
    /\ UNCHANGED <<characteristics, subscribed_handlers, lock, frame,
                   lastWrite, budget>>

\* if callback is not None: self._callbacks[value_handle].add(callback)
SubAdd(t) ==
    /\ pc[t] = "sub_add"
    /\ LET h == frame[t].value_handle IN
       IF frame[t].callback # None
       THEN /\ callbacks' = Put(callbacks, h,
                              Get(callbacks, h, {}) \cup {frame[t].callback})
            /\ hist' = Added(h, frame[t].callback)
       ELSE UNCHANGED <<callbacks, hist>>
    /\ pc' = [pc EXCEPT ![t] = "sub_cmp"]
    /\ UNCHANGED <<characteristics, subscribed_handlers, lock, frame,
                   lastWrite, budget>>

\* a successful return of subscribe: the with-block ends
SubReturn(t, fr) ==
    /\ lock' = Unlocked
    /\ frame' = [frame EXCEPT ![t] = [fr EXCEPT !.result = "ok"]]
    /\ pc' = [pc EXCEPT ![t] = "done"]

NowRegistered(t) ==
    IF frame[t].callback # None THEN {frame[t].callback} ELSE {}

\* if self._subscribed_handlers.get(value_handle, None) != properties:
\* the else branch leaves the with-block and subscribe returns
SubCmp(t) ==
    /\ pc[t] = "sub_cmp"
    /\ LET h == frame[t].value_handle
           before == Get(subscribed_handlers, h, NoConfig)
           fr == [frame[t] EXCEPT !.before = before, !.prev = hist[h].last]
       IN IF ConfigDiffers(h, Properties(frame[t].indication))
          THEN /\ frame' = [frame EXCEPT ![t] = fr]
               /\ pc' = [pc EXCEPT ![t] = "sub_write"]
               /\ hist' = [hist EXCEPT ![h].asked =
                               @ \cup {frame[t].indication}]
               /\ UNCHANGED lock
          ELSE /\ SubReturn(t, [fr EXCEPT !.after = before])
               /\ hist' = [hist EXCEPT
                      ![h].asked = @ \cup {frame[t].indication},
                      ![h].last = [SubRec(t, 0, TRUE) EXCEPT !.before = before],
                      ![h].registered = @ \cup NowRegistered(t)]
    /\ UNCHANGED <<registry, lastWrite, budget>>

\* self.char_write_handle(characteristic_config_handle, properties,
\*                        wait_for_response=False) returns
SubWriteOk(t) ==
    /\ pc[t] = "sub_write"
    /\ LET w == WriteRec("subscribe", t, ConfigHandle(frame[t].value_handle),
                         Properties(frame[t].indication), FALSE, TRUE)
       IN /\ lastWrite' = w
          /\ frame' = [frame EXCEPT ![t].nwrites = @ + 1, ![t].wrote = w]
    /\ hist' = [hist EXCEPT
           ![frame[t].value_handle].writes = @ + 1,
           ![frame[t].value_handle].lastOk = Properties(frame[t].indication)]
    /\ pc' = [pc EXCEPT ![t] = "sub_record"]
    /\ UNCHANGED <<registry, lock, budget>>

SubWriteFailRecorded(t) ==
    /\ pc[t] = "sub_write"
    /\ subscribed_handlers' = Put(subscribed_handlers, frame[t].value_handle,
                                  Properties(frame[t].indication))
    /\ LET w == WriteRec("subscribe", t, ConfigHandle(frame[t].value_handle),
                         Properties(frame[t].indication), FALSE, FALSE)
       IN /\ lastWrite' = w
          /\ Raise(t, "TransportError",
                   [frame[t] EXCEPT !.nwrites = @ + 1, !.wrote = w,
                        !.after = Get(subscribed_handlers',
                                      frame[t].value_handle, NoConfig)])
    /\ hist' = [hist EXCEPT ![frame[t].value_handle].writes = @ + 1,
                            ![frame[t].value_handle].last =
                                SubRec(t, frame[t].nwrites + 1, FALSE)]
    /\ lock' = Unlocked
    /\ UNCHANGED <<characteristics, callbacks, budget>>

SubWriteFailUnsets(t) ==
    /\ pc[t] = "sub_write"
    /\ subscribed_handlers' =
           [h \in DOMAIN subscribed_handlers \ {frame[t].value_handle} |->
                subscribed_handlers[h]]
    /\ LET w == WriteRec("subscribe", t, ConfigHandle(frame[t].value_handle),
                         Properties(frame[t].indication), FALSE, FALSE)
       IN /\ lastWrite' = w
          /\ Raise(t, "TransportError",
                   [frame[t] EXCEPT !.nwrites = @ + 1, !.wrote = w,
                        !.after = Get(subscribed_handlers',
                                      frame[t].value_handle, NoConfig)])
    /\ hist' = [hist EXCEPT ![frame[t].value_handle].writes = @ + 1,
                            ![frame[t].value_handle].last =
                                SubRec(t, frame[t].nwrites + 1, FALSE)]
    /\ lock' = Unlocked
    /\ UNCHANGED <<characteristics, callbacks, budget>>

\* the callback added by the call is taken out again when the write fails
SubWriteFailRemoves(t) ==
    /\ pc[t] = "sub_write"
    /\ callbacks' =
           [h \in DOMAIN callbacks |->
                IF h = frame[t].value_handle
                THEN callbacks[h] \ {frame[t].callback} ELSE callbacks[h]]
    /\ LET w == WriteRec("subscribe", t, ConfigHandle(frame[t].value_handle),
                         Properties(frame[t].indication), FALSE, FALSE)
       IN /\ lastWrite' = w
          /\ Raise(t, "TransportError",
                   [frame[t] EXCEPT !.nwrites = @ + 1, !.wrote = w,
                        !.after = Get(subscribed_handlers,
                                      frame[t].value_handle, NoConfig)])
    /\ hist' = [hist EXCEPT ![frame[t].value_handle].writes = @ + 1,
                            ![frame[t].value_handle].last =
                                SubRec(t, frame[t].nwrites + 1, FALSE)]
    /\ lock' = Unlocked
    /\ UNCHANGED <<characteristics, subscribed_handlers, budget>>

\* self.char_write_handle(...) raises: the exception leaves the with-block
\* and subscribe; line 129 is not reached
SubWriteFail(t) ==
    /\ pc[t] = "sub_write"
    /\ UNCHANGED subscribed_handlers
    /\ LET w == WriteRec("subscribe", t, ConfigHandle(frame[t].value_handle),
                         Properties(frame[t].indication), FALSE, FALSE)
       IN /\ lastWrite' = w
          /\ Raise(t, "TransportError",
                   [frame[t] EXCEPT !.nwrites = @ + 1, !.wrote = w,
                        !.after = Get(subscribed_handlers',
                                      frame[t].value_handle, NoConfig)])
    /\ hist' = [hist EXCEPT ![frame[t].value_handle].writes = @ + 1,
                            ![frame[t].value_handle].last =
                                SubRec(t, frame[t].nwrites + 1, FALSE)]
    /\ lock' = Unlocked
    /\ UNCHANGED <<characteristics, callbacks, budget>>

\* 1 when the assignment of line 129 changes the recorded config
Changed(t) ==
    IF Get(subscribed_handlers, frame[t].value_handle, NoConfig)
           # Properties(frame[t].indication) THEN 1 ELSE 0

SubRecordKeepsLock(t) ==
    /\ pc[t] = "sub_record"
    /\ subscribed_handlers' = Put(subscribed_handlers, frame[t].value_handle,
                                  Properties(frame[t].indication))
    /\ hist' = [hist EXCEPT
           ![frame[t].value_handle].changes = @ + Changed(t),
           ![frame[t].value_handle].last = SubRec(t, frame[t].nwrites, TRUE),
           ![frame[t].value_handle].registered = @ \cup NowRegistered(t)]
    /\ frame' = [frame EXCEPT ![t].result = "ok",
                     ![t].after = Properties(frame[t].indication)]
    /\ pc' = [pc EXCEPT ![t] = "done"]
    /\ UNCHANGED <<characteristics, callbacks, lock, lastWrite, budget>>

\* the config is recorded under the config handle, not the value handle
SubRecordUnderConfigHandle(t) ==
    /\ pc[t] = "sub_record"
    /\ subscribed_handlers' =
           Put(subscribed_handlers, ConfigHandle(frame[t].value_handle),
               Properties(frame[t].indication))
    /\ hist' = [hist EXCEPT
           ![frame[t].value_handle].changes = @ + Changed(t),
           ![frame[t].value_handle].last = SubRec(t, frame[t].nwrites, TRUE),
           ![frame[t].value_handle].registered = @ \cup NowRegistered(t)]
    /\ SubReturn(t, [frame[t] EXCEPT
                        !.after = Get(subscribed_handlers',
                                      frame[t].value_handle, NoConfig)])
    /\ UNCHANGED <<characteristics, callbacks, lastWrite, budget>>

\* self._subscribed_handlers[value_handle] = properties
\* then the with-block ends and subscribe returns
SubRecord(t) ==
    /\ pc[t] = "sub_record"
    /\ subscribed_handlers' = Put(subscribed_handlers, frame[t].value_handle,
                                  Properties(frame[t].indication))
    /\ hist' = [hist EXCEPT
           ![frame[t].value_handle].changes = @ + Changed(t),
           ![frame[t].value_handle].last = SubRec(t, frame[t].nwrites, TRUE),
           ![frame[t].value_handle].registered = @ \cup NowRegistered(t)]
    /\ SubReturn(t, [frame[t] EXCEPT
                        !.after = Get(subscribed_handlers',
                                      frame[t].value_handle, NoConfig)])
    /\ UNCHANGED <<characteristics, callbacks, lastWrite, budget>>

\* -------------------------------------------------------------- char_write
\* return self.char_write_handle(self.get_handle(uuid), value,
\*                               wait_for_response=wait_for_response)
CwWrite(t, ok) ==
    /\ pc[t] = "cw_write"
    /\ LET w == WriteRec("char_write", t, frame[t].value_handle, frame[t].data,
                         frame[t].wait, ok)
       IN /\ lastWrite' = w
          /\ frame' = [frame EXCEPT ![t].nwrites = @ + 1, ![t].wrote = w,
                           ![t].result = IF ok THEN "ok" ELSE "TransportError"]
    /\ pc' = [pc EXCEPT ![t] = "done"]
    /\ UNCHANGED <<registry, lock, hist, budget>>

\* ---------------------------------------------------- receive_notification
\* the with-block ends and receive_notification returns
RnReturn(t, fr) ==
    /\ lock' = Unlocked
    /\ frame' = [frame EXCEPT ![t] = [fr EXCEPT !.result = "ok"]]
    /\ pc' = [pc EXCEPT ![t] = "done"]

RnLockNoWait(t) ==
    /\ pc[t] = "rn_lock"
    /\ lock' = t
    /\ pc' = [pc EXCEPT ![t] = "rn_check"]
    /\ UNCHANGED <<registry, frame, transport, budget>>

\* with self._lock:  (entry)
RnLock(t) ==
    /\ pc[t] = "rn_lock"
    /\ lock = Unlocked
    /\ lock' = t
    /\ pc' = [pc EXCEPT ![t] = "rn_check"]
    /\ UNCHANGED <<registry, frame, transport, budget>>

\* indexing the defaultdict instead of testing membership creates the entry
RnCheckIndexed(t) ==
    /\ pc[t] = "rn_check"
    /\ callbacks' = Put(callbacks, frame[t].handle,
                        Get(callbacks, frame[t].handle, {}))
    /\ IF Get(callbacks, frame[t].handle, {}) # {}
       THEN /\ pc' = [pc EXCEPT ![t] = "rn_call"]
            /\ UNCHANGED <<lock, frame>>
       ELSE RnReturn(t, frame[t])
    /\ UNCHANGED <<characteristics, subscribed_handlers, transport, budget>>

\* the lock is released before the callbacks are called
RnCheckReleases(t) ==
    /\ pc[t] = "rn_check"
    /\ IF frame[t].handle \in DOMAIN callbacks
       THEN /\ pc' = [pc EXCEPT ![t] = "rn_call"]
            /\ lock' = Unlocked
            /\ UNCHANGED frame
       ELSE RnReturn(t, frame[t])
    /\ UNCHANGED <<registry, transport, budget>>

\* if handle in self._callbacks:
\* without an entry for the handle the with-block ends at once
RnCheck(t) ==
    /\ pc[t] = "rn_check"
    /\ IF frame[t].handle \in DOMAIN callbacks
       THEN /\ pc' = [pc EXCEPT ![t] = "rn_call"]
            /\ UNCHANGED <<lock, frame>>
       ELSE RnReturn(t, frame[t])
    /\ UNCHANGED <<registry, transport, budget>>

InvokedFns(invoked) == {invoked[i].callback : i \in 1..Len(invoked)}

RemainingFirstOnly(t, invoked) ==
    IF invoked = <<>> THEN callbacks[frame[t].handle] ELSE {}
\* for callback in self._callbacks[handle]: the callbacks the loop has not
\* reached after those in invoked
Remaining(t, invoked) == callbacks[frame[t].handle] \ InvokedFns(invoked)

InvocationOfHandleOnly(t, callback) ==
    [callback |-> callback, handle |-> frame[t].handle, value |-> None]
\* callback(handle, value)
Invocation(t, callback) ==
    [callback |-> callback, handle |-> frame[t].handle,
     value |-> frame[t].value]

\* callback(handle, value) returns; the loop goes on, or it ends and
\* with it the with-block
RnCall(t, callback) ==
    /\ pc[t] = "rn_call"
    /\ callback \in Remaining(t, frame[t].invoked)
    /\ LET invoked == Append(frame[t].invoked, Invocation(t, callback))
           fr == [frame[t] EXCEPT !.invoked = invoked]
       IN IF Remaining(t, invoked) # {}
          THEN /\ frame' = [frame EXCEPT ![t] = fr]
               /\ UNCHANGED <<lock, pc>>
          ELSE RnReturn(t, fr)
    /\ UNCHANGED <<registry, transport, budget>>

\* the lock is not released when the exception leaves the block
RnCallRaiseKeepsLock(t, callback) ==
    /\ pc[t] = "rn_call"
    /\ callback \in Remaining(t, frame[t].invoked)
    /\ UNCHANGED lock
    /\ Raise(t, "CallbackError",
             [frame[t] EXCEPT !.invoked = Append(@, Invocation(t, callback))])
    /\ UNCHANGED <<registry, transport, budget>>

\* callback(handle, value) raises: the exception leaves the loop, the
\* with-block and receive_notification
RnCallRaise(t, callback) ==
    /\ pc[t] = "rn_call"
    /\ callback \in Remaining(t, frame[t].invoked)
    /\ lock' = Unlocked
    /\ Raise(t, "CallbackError",
             [frame[t] EXCEPT !.invoked = Append(@, Invocation(t, callback))])
    /\ UNCHANGED <<registry, transport, budget>>

\* ------------------------------------------- calls made from a callback
\* callback(handle, value) runs in the dispatching thread, inside the
\* with-block of line 163, and calls subscribe on the same device: the
\* frame of the dispatch waits below the frame of the new call
ReenterSubscribe(t, cb, uuid, callback, indication) ==
    /\ pc[t] = "rn_call" /\ frame[t].outer = <<>>
    /\ cb \in Remaining(t, frame[t].invoked)
    /\ frame' = [frame EXCEPT ![t] = [NoFrame EXCEPT
           !.op = "subscribe", !.uuid = uuid, !.callback = callback,
           !.indication = indication,
           !.outer = <<[frame[t] EXCEPT
                           !.invoked = Append(@, Invocation(t, cb))]>>]]
    /\ pc' = [pc EXCEPT ![t] = "gh_check"]
    /\ UNCHANGED <<registry, lock, transport, budget>>

\* the callback calls receive_notification on the same device
ReenterReceive(t, cb, handle, value) ==
    /\ pc[t] = "rn_call" /\ frame[t].outer = <<>>
    /\ cb \in Remaining(t, frame[t].invoked)
    /\ frame' = [frame EXCEPT ![t] = [NoFrame EXCEPT
           !.op = "receive_notification", !.handle = handle, !.value = value,
           !.registered = hist[handle].registered,
           !.readded = hist[handle].readded,
           !.outer = <<[frame[t] EXCEPT
                           !.invoked = Append(@, Invocation(t, cb))]>>]]
    /\ pc' = [pc EXCEPT ![t] = "rn_lock"]
    /\ UNCHANGED <<registry, lock, transport, budget>>

\* the call made from the callback ended with an exception, which leaves
\* the callback, the loop and the with-block of the dispatch
NestedRaise(t) ==
    /\ pc[t] = "done" /\ frame[t].outer # <<>>
    /\ frame[t].result # "ok"
    /\ frame' = [frame EXCEPT ![t] =
                     [frame[t].outer[1] EXCEPT !.result = "CallbackError"]]
    /\ lock' = Unlocked
    /\ UNCHANGED <<registry, pc, transport, budget>>

\* -------------------------------------------------------------- disconnect
DisconnectKeepsCallbacks(t) ==
    /\ Free(t)
    /\ lock = Unlocked
    /\ session.n < MaxDisconnects
    /\ characteristics' = TableOf({})
    /\ subscribed_handlers' = [h \in {} |-> <<>>]
    /\ hist' = [h \in Handles |-> NoHist]
    /\ session' = NewSession(session.n + 1)
    /\ frame' = [frame EXCEPT ![t] = [NoFrame EXCEPT !.op = "disconnect",
                                                     !.result = "ok"]]
    /\ pc' = [pc EXCEPT ![t] = "done"]
    /\ UNCHANGED <<callbacks, lock, lastWrite, ncalls, nnotif>>

\* disconnect(): the session ends; the handle table, the callback sets and
\* the recorded configs of the session are cleared
Disconnect(t) ==
    /\ Free(t)
    /\ lock = Unlocked
    /\ session.n < MaxDisconnects
    /\ characteristics' = TableOf({})
    /\ callbacks' = [h \in {} |-> {}]
    /\ subscribed_handlers' = [h \in {} |-> <<>>]
    /\ hist' = [h \in Handles |-> NoHist]
    /\ session' = NewSession(session.n + 1)
    /\ frame' = [frame EXCEPT ![t] = [NoFrame EXCEPT !.op = "disconnect",
                                                     !.result = "ok"]]
    /\ pc' = [pc EXCEPT ![t] = "done"]
    /\ UNCHANGED <<lock, lastWrite, ncalls, nnotif>>

\* ---------------------------------------------------------- specifications
GetHandleStep(t) ==
    \/ GhCheck(t)
    \/ \E table \in DiscoverResults : GhDiscover(t, table)
    \/ GhDiscoverFail(t)
    \/ GhGet(t)

SubscribeStep(t) ==
    \/ SubLock(t)
    \/ SubAdd(t)
    \/ SubCmp(t)
    \/ SubWriteOk(t)
    \/ SubRecord(t)

ReceiveStep(t) ==
    \/ RnLock(t)
    \/ RnCheck(t)
    \/ \E cb \in CallbackFns : RnCall(t, cb)
    \/ \E cb \in CallbackFns : RnCallRaise(t, cb)

AnySubscribe(t) ==
    \E u \in UUIDs, cb \in CallbackFns \cup {None}, ind \in BOOLEAN :
        CallSubscribe(t, u, cb, ind)

AnyReceive(t) == \E h \in Handles, v \in Values : CallReceive(t, h, v)

\* threads that subscribe and a transport that delivers notifications, may
\* fail a call, and may show any part of the peer's characteristics
Next ==
    \E t \in Threads :
        \/ AnySubscribe(t)
        \/ AnyReceive(t)
        \/ GetHandleStep(t)
        \/ SubscribeStep(t)
        \/ SubWriteFail(t)
        \/ ReceiveStep(t)

Spec == Init /\ [][Next]_vars

\* the same with a transport whose calls do not fail
NextReliable ==
    \E t \in Threads :
        \/ AnySubscribe(t)
        \/ AnyReceive(t)
        \/ GhCheck(t)
        \/ \E table \in DiscoverResults : GhDiscover(t, table)
        \/ GhGet(t)
        \/ SubscribeStep(t)
        \/ ReceiveStep(t)

SpecReliable == Init /\ [][NextReliable]_vars

\* threads that call get_handle and char_write
NextLookup ==
    \E t \in Threads :
        \/ \E u \in UUIDs : CallGetHandle(t, u)
        \/ \E u \in UUIDs, d \in WriteValues, w \in BOOLEAN :
               CallCharWrite(t, u, d, w)
        \/ GetHandleStep(t)
        \/ \E ok \in BOOLEAN : CwWrite(t, ok)

SpecLookup == Init /\ [][NextLookup]_vars

\* a session that may be ended by disconnect
NextSession ==
    \E t \in Threads :
        \/ AnySubscribe(t)
        \/ AnyReceive(t)
        \/ GetHandleStep(t)
        \/ SubscribeStep(t)
        \/ SubWriteFail(t)
        \/ ReceiveStep(t)
        \/ Disconnect(t)

SpecSession == Init /\ [][NextSession]_vars

\* one subscribe call per thread, thread t for a UUID of its own, on a peer
\* that has every UUID and a transport whose calls return
Participants == {t \in Threads : t <= 2}
UuidOf(t) == IF t = 1 THEN "u1" ELSE "u2"

CallOwn(t) ==
    /\ t \in Participants
    /\ pc[t] = "idle"
    /\ \E cb \in CallbackFns \cup {None}, ind \in BOOLEAN :
           CallSubscribe(t, UuidOf(t), cb, ind)

\* the steps of a call that the scheduler lets run
DistinctStep(t) ==
    \/ GhCheck(t)
    \/ GhDiscover(t, TableOf(UUIDs))
    \/ GhGet(t)
    \/ SubscribeStep(t)

NextDistinct == \E t \in Threads : CallOwn(t) \/ DistinctStep(t)

\* a thread that can take a step of its call eventually takes it
SpecDistinct ==
    Init /\ [][NextDistinct]_vars /\ \A t \in Threads : WF_vars(DistinctStep(t))

\* threads that call any of the four operations, with a transport that may
\* fail a call
NextOps ==
    \E t \in Threads :
        \/ AnySubscribe(t)
        \/ \E u \in UUIDs : CallGetHandle(t, u)
        \/ \E u \in UUIDs, d \in WriteValues, w \in BOOLEAN :
               CallCharWrite(t, u, d, w)
        \/ AnyReceive(t)
        \/ GetHandleStep(t)
        \/ SubscribeStep(t)
        \/ SubWriteFail(t)
        \/ \E ok \in BOOLEAN : CwWrite(t, ok)
        \/ ReceiveStep(t)

SpecOps == Init /\ [][NextOps]_vars

\* threads that subscribe and dispatch, with callbacks that may call
\* subscribe or receive_notification on the device they were called for
NextReentrant ==
    \E t \in Threads :
        \/ AnySubscribe(t)
        \/ AnyReceive(t)
        \/ GetHandleStep(t)
        \/ SubscribeStep(t)
        \/ ReceiveStep(t)
        \/ \E cb \in CallbackFns, u \in UUIDs, ind \in BOOLEAN :
               ReenterSubscribe(t, cb, u, None, ind)
        \/ \E cb \in CallbackFns, h \in Handles, v \in Values :
               ReenterReceive(t, cb, h, v)
        \/ NestedRaise(t)

SpecReentrant == Init /\ [][NextReentrant]_vars

\* ------------------------------------------------------------------ claims
Returned(t, op) == pc[t] = "done" /\ frame[t].op = op

\* the config bytes the documentation fixes for each indication value
Bytes(indication) == IF indication THEN <<2, 0>> ELSE <<1, 0>>

\* C1: of two successive successful subscribe calls on one value handle,
\* when both ask for the same indication the second issues no write and the
\* first issued one (none only if that config was already recorded before
\* it), so the two issue one write in total; when the second asks for the
\* other indication it issues exactly one write, whose first byte is the
\* new flag.
C1_OneWritePerConfigChange ==
    \A t \in Threads :
        (Returned(t, "subscribe") /\ frame[t].result = "ok"
            /\ frame[t].prev.any /\ frame[t].prev.ok)
        => IF frame[t].prev.indication = frame[t].indication
           THEN /\ frame[t].nwrites = 0
                /\ frame[t].prev.nwrites =
                       IF frame[t].prev.before = Bytes(frame[t].indication)
                       THEN 0 ELSE 1
           ELSE /\ frame[t].nwrites = 1
                /\ frame[t].wrote.by = "subscribe"
                /\ frame[t].wrote.value[1] = Bytes(frame[t].indication)[1]
                /\ frame[t].wrote.value[1] # frame[t].before[1]

\* a second successful subscribe with the same arguments has returned: one
\* write in total
C1_Witness ==
    \E t \in Threads :
        /\ Returned(t, "subscribe") /\ frame[t].result = "ok"
        /\ frame[t].prev.any /\ frame[t].prev.ok
        /\ frame[t].prev.indication = frame[t].indication
        /\ frame[t].prev.nwrites = 1 /\ frame[t].nwrites = 0

Count(invoked, callback) ==
    Cardinality({i \in 1..Len(invoked) : invoked[i].callback = callback})

\* every callback whose subscribe had returned when the dispatch was called
\* was invoked exactly once, with exactly (handle, value)
InvokedEachOnce(t) ==
    \A cb \in frame[t].registered :
        /\ Count(frame[t].invoked, cb) = 1
        /\ \A i \in 1..Len(frame[t].invoked) :
               frame[t].invoked[i].callback = cb
               => /\ frame[t].invoked[i].handle = frame[t].handle
                  /\ frame[t].invoked[i].value = frame[t].value

\* C2 as stated: every receive_notification that has ended invoked every
\* callback subscribed before it exactly once with (handle, value).
C2_Original ==
    \A t \in Threads : Returned(t, "receive_notification") => InvokedEachOnce(t)

\* C2 as amended: a receive_notification that returns normally invoked every
\* callback subscribed before it exactly once with exactly (handle, value);
\* one that ends in a callback's exception invoked no callback twice and
\* ended with the callback that raised.
C2_DispatchInvokesEachOnce ==
    \A t \in Threads :
        Returned(t, "receive_notification")
        => /\ frame[t].result = "ok" => InvokedEachOnce(t)
           /\ \A cb \in CallbackFns : Count(frame[t].invoked, cb) <= 1
           /\ \A i \in 1..Len(frame[t].invoked) :
                  /\ frame[t].invoked[i].handle = frame[t].handle
                  /\ frame[t].invoked[i].value = frame[t].value

\* a dispatch has returned after invoking two subscribed callbacks
C2_Witness ==
    \E t \in Threads :
        /\ Returned(t, "receive_notification") /\ frame[t].result = "ok"
        /\ Cardinality(frame[t].registered) = 2
        /\ Len(frame[t].invoked) = 2

SubscribeWriteOk(w) ==
    w.by = "subscribe"
    => /\ w.handle = DeviceHandle[w.uuid] + 1
       /\ w.value = Bytes(w.indication)
       /\ Len(w.value) = 2
       /\ w.wait = FALSE

\* C3: every write subscribe issues goes to the value handle plus one,
\* carries [0x01, 0x00] without indication and [0x02, 0x00] with it, and
\* has wait_for_response false.
C3_ConfigWriteShape ==
    /\ SubscribeWriteOk(lastWrite)
    /\ \A t \in Threads :
           /\ SubscribeWriteOk(frame[t].wrote)
           /\ frame[t].op = "subscribe" => frame[t].nwrites <= 1

\* subscribe has written an indication config for the second characteristic
C3_Witness ==
    /\ lastWrite.by = "subscribe" /\ lastWrite.ok
    /\ lastWrite.indication /\ lastWrite.handle = 33
    /\ lastWrite.value = <<2, 0>>

C5_FailedWriteNotRecorded ==
    \A t \in Threads :
        Returned(t, "subscribe")
        => /\ (frame[t].nwrites = 1 /\ ~frame[t].wrote.ok)
                  => /\ frame[t].result = "TransportError"
                     /\ frame[t].after = frame[t].before
           /\ (frame[t].prev.any /\ ~frame[t].prev.ok
                   /\ frame[t].prev.indication = frame[t].indication)
                  => /\ frame[t].nwrites = 1
                     /\ frame[t].before = frame[t].prev.before

\* a subscribe has written again after the previous one on the handle failed
C5_Witness ==
    \E t \in Threads :
        /\ Returned(t, "subscribe") /\ frame[t].result = "ok"
        /\ frame[t].prev.any /\ ~frame[t].prev.ok
        /\ frame[t].prev.indication = frame[t].indication
        /\ frame[t].nwrites = 1

\* C6: the steps of a receive_notification that holds the lock for a handle
\* without an entry in the callback table change neither the handle table,
\* nor the callback table (its set of handles included), nor the recorded
\* configs, make no transport call, invoke nothing and return normally.
C6_DispatchWithoutCallbacks ==
    [][\A t \in Threads :
          (pc[t] = "rn_check" /\ pc'[t] # "rn_check"
              /\ frame[t].handle \notin DOMAIN callbacks)
          => /\ registry' = registry
             /\ DOMAIN callbacks' = DOMAIN callbacks
             /\ transport' = transport
             /\ pc'[t] = "done"
             /\ frame'[t].result = "ok"
             /\ frame'[t].invoked = <<>>]_vars

\* a dispatch on a handle without callbacks has returned while another
\* handle has callbacks
C6_Witness ==
    \E t \in Threads :
        /\ Returned(t, "receive_notification") /\ frame[t].result = "ok"
        /\ frame[t].invoked = <<>>
        /\ frame[t].handle \notin DOMAIN callbacks
        /\ DOMAIN callbacks # {}

InCall(t) == pc[t] \notin {"idle", "done"}

\* subscribe of thread t has returned successfully, having issued the
\* configuration write of its own UUID, and its config is the recorded one
SucceededOwn(t) ==
    /\ Returned(t, "subscribe") /\ frame[t].result = "ok"
    /\ frame[t].uuid = UuidOf(t)
    /\ frame[t].nwrites = 1
    /\ frame[t].wrote.ok
    /\ frame[t].wrote.handle = DeviceHandle[UuidOf(t)] + 1
    /\ frame[t].wrote.value = Bytes(frame[t].indication)
    /\ hist[DeviceHandle[UuidOf(t)]].writes = 1
    /\ Get(subscribed_handlers, DeviceHandle[UuidOf(t)], NoConfig)
           = Bytes(frame[t].indication)

\* while a call is under way some thread can take a step
NoDeadlock ==
    (\E t \in Threads : InCall(t)) => \E t \in Threads : ENABLED DistinctStep(t)

\* C7: in every interleaving of concurrent subscribe calls for distinct
\* UUIDs, with a transport whose calls return, no reachable state is a
\* deadlock, and every call eventually returns successfully with its own
\* configuration write issued and its own config recorded.
C7_DistinctSubscribesSucceed ==
    /\ []NoDeadlock
    /\ \A t \in Participants : InCall(t) ~> SucceededOwn(t)

\* both calls have returned, each with its own write and config
C7_Witness ==
    /\ \A t \in Participants : SucceededOwn(t)
    /\ lock = Unlocked
    /\ DOMAIN subscribed_handlers = {DeviceHandle[u] : u \in UUIDs}

\* the positions at which a call reads or writes the handle table
\* (lines 141, 142, 144), a callback set (lines 120, 164-165) or a
\* recorded config (lines 122, 129)
TablePcs == {"gh_check", "gh_discover", "gh_get"}
RegistryPcs == {"sub_add", "sub_cmp", "sub_record", "rn_check", "rn_call"}

\* the claim as made: the handle table included
C8_Original ==
    \A t \in Threads : pc[t] \in TablePcs \cup RegistryPcs => lock = t

\* C8: every read and every write of a callback set and of a recorded
\* config by subscribe or receive_notification happens while the calling
\* thread holds the device lock, so no two threads are at such an access at
\* the same time, and the lock is held only by a thread inside its
\* with-block; get_handle reads and replaces the handle table without the
\* lock.
C8_RegistryUnderLock ==
    /\ \A t \in Threads : pc[t] \in RegistryPcs \cup {"sub_write"} => lock = t
    /\ \A t1, t2 \in Threads :
           (pc[t1] \in RegistryPcs /\ pc[t2] \in RegistryPcs) => t1 = t2
    /\ lock # Unlocked => pc[lock] \in RegistryPcs \cup {"sub_write"}

\* one thread is at an access inside its with-block while another waits
\* for the lock and a third access, to the handle table, needs no lock
C8_Witness ==
    \E t1, t2 \in Threads :
        /\ t1 # t2
        /\ pc[t1] \in RegistryPcs /\ lock = t1
        /\ pc[t2] \in {"sub_lock", "rn_lock"}

\* C9: concurrent subscribe calls for one UUID that all ask for the same
\* indication, starting with no config recorded and with a transport that
\* does not fail, issue exactly one configuration write in total: never
\* more than one, and one as soon as any of them has returned; and for
\* every handle the number of writes never exceeds the number of changes of
\* its recorded config, counting the change that the thread between its
\* write and line 129 is about to make.
C9_OneWriteForConcurrentSubscribes ==
    \A h \in Handles :
        /\ Cardinality(hist[h].asked) <= 1 => hist[h].writes <= 1
        /\ (Cardinality(hist[h].asked) = 1 /\ hist[h].last.any)
               => hist[h].writes = 1
        /\ hist[h].writes = hist[h].changes
               + Cardinality({t \in Threads : pc[t] = "sub_record"
                                  /\ frame[t].value_handle = h})
        /\ lock = Unlocked => hist[h].writes <= hist[h].changes

\* two calls for the same UUID and indication that overlapped (each missed
\* the table and discovered) have both returned: one write
C9_Witness ==
    \E h \in Handles, t1, t2 \in Threads :
        /\ t1 # t2
        /\ \A t \in {t1, t2} :
               /\ Returned(t, "subscribe") /\ frame[t].result = "ok"
               /\ frame[t].value_handle = h
               /\ frame[t].ndiscover = 1
        /\ frame[t1].indication = frame[t2].indication
        /\ frame[t1].nwrites + frame[t2].nwrites = 1
        /\ hist[h].writes = 1 /\ hist[h].changes = 1

\* the step is a disconnect
Disconnects == session'.n # session.n

\* thread t invokes callback cb in the step
Invokes(t, cb) ==
    /\ Len(frame'[t].invoked) = Len(frame[t].invoked) + 1
    /\ frame'[t].invoked[Len(frame'[t].invoked)].callback = cb

RecordsConfig(t) ==
    /\ frame[t].op = "subscribe" /\ pc[t] = "sub_record"
    /\ pc'[t] = "done"
    /\ DOMAIN subscribed_handlers' =
           DOMAIN subscribed_handlers \cup {frame[t].value_handle}
    /\ \A h \in DOMAIN subscribed_handlers' :
           subscribed_handlers'[h] =
               IF h = frame[t].value_handle THEN Bytes(frame[t].indication)
               ELSE subscribed_handlers[h]

\* C11: the recorded config of a value handle is unset or one of
\* [0x01, 0x00] and [0x02, 0x00]; a step that changes a recorded config is
\* the recording step of a subscribe call (no step of receive_notification,
\* get_handle or char_write changes one); and a handle with a recorded
\* config keeps having one.
C11_ConfigStates ==
    /\ [](\A h \in DOMAIN subscribed_handlers :
              subscribed_handlers[h] \in {<<1, 0>>, <<2, 0>>})
    /\ [][subscribed_handlers' # subscribed_handlers
              => \E t \in Threads : RecordsConfig(t)]_vars
    /\ [][DOMAIN subscribed_handlers \subseteq DOMAIN subscribed_handlers']_vars

\* a handle is set to indicate, a later subscribe on it has failed at its
\* write, and another operation has run: the config is still in place
C11_Witness ==
    \E h \in DOMAIN subscribed_handlers, t1, t2 \in Threads :
        /\ t1 # t2
        /\ subscribed_handlers[h] = <<2, 0>>
        /\ Returned(t1, "subscribe") /\ frame[t1].value_handle = h
        /\ frame[t1].result = "TransportError"
        /\ frame[t1].before = <<2, 0>>
        /\ frame[t1].after = <<2, 0>>
        /\ frame[t2].op \in {"receive_notification", "char_write", "get_handle"}
        /\ pc[t2] = "done"

\* thread t takes the step of line 142: its discover_characteristics call
\* returns and the result is assigned
Discovers(t) == pc[t] = "gh_discover" /\ pc'[t] = "gh_get"

\* C12: when get_handle misses, the handle table after the assignment of
\* line 142 is exactly the mapping that discover_characteristics call
\* returned: a UUID cached before and absent from the result is gone, so
\* the next test of line 141 for it misses, and no entry of the old table
\* is kept.
C12_TableReplacedWholesale ==
    [][\A t \in Threads :
          Discovers(t) =>
              /\ frame[t].missed = "miss"
              /\ characteristics' = frame'[t].table
              /\ \A u \in DOMAIN characteristics \ DOMAIN frame'[t].table :
                     u \notin DOMAIN characteristics']_vars

\* a lookup of u1 had succeeded from the table; the rediscovery of a later
\* miss returned a mapping without u1, and u1 is no longer cached
C12_Witness ==
    \E t1, t2 \in Threads :
        /\ t1 # t2
        /\ Returned(t1, "get_handle") /\ frame[t1].result = "ok"
        /\ frame[t1].uuid = "u1"
        /\ frame[t2].uuid = "u2" /\ frame[t2].ndiscover = 1
        /\ pc[t2] = "gh_get"
        /\ "u2" \in DOMAIN frame[t2].table
        /\ characteristics = frame[t2].table
        /\ "u1" \notin DOMAIN characteristics

\* get_handle of thread t has ended without finding its UUID in the table
\* (the discovery, if one was made, returned)
NotFound(t) ==
    /\ Returned(t, "get_handle")
    /\ frame[t].value_handle = NoHandle
    /\ frame[t].result # "TransportError"

\* C13: get_handle(uuid) returns None when the UUID is not found after the
\* rediscovery, rather than ending in an error.
C13_ReturnsNoneWhenNotFound ==
    \A t \in Threads :
        NotFound(t) => frame[t].result = "ok" /\ frame[t].returned = NoHandle

\* thread t is inside the with-block of receive_notification
InDispatch(t) == pc[t] \in {"rn_check", "rn_call"}
InSubscribeBlock(t) == pc[t] \in {"sub_add", "sub_cmp", "sub_write", "sub_record"}

\* the dispatch of thread t ends in the step
DispatchEnds(t) == InDispatch(t) /\ pc'[t] = "done"

\* the callbacks invoked are the members of fns, each once
InvokedExactly(invoked, fns) ==
    /\ InvokedFns(invoked) = fns
    /\ \A cb \in fns : Count(invoked, cb) = 1

\* no subscribe adds a callback or changes a config during a dispatch, and
\* no subscribe is inside its with-block then
DispatchExcludesSubscribe ==
    /\ [][(\E t \in Threads : InDispatch(t))
              => /\ callbacks' = callbacks
                 /\ subscribed_handlers' = subscribed_handlers]_vars
    /\ [](\A t1, t2 \in Threads : ~(InDispatch(t1) /\ InSubscribeBlock(t2)))

\* the claim as made: every dispatch, however it ends, has invoked exactly
\* the members of the callback set it found
C14_Original ==
    /\ DispatchExcludesSubscribe
    /\ [][\A t \in Threads :
              DispatchEnds(t) =>
                  InvokedExactly(frame'[t].invoked,
                                 Get(callbacks, frame[t].handle, {}))]_vars

\* C14: the callbacks invoked by a receive_notification call that returns
\* normally are exactly the members of the callback set of the handle when
\* the dispatch acquired the lock, each invoked once; a dispatch that ends
\* because a callback raised has invoked some of these members, each once;
\* no subscribe adds a callback or changes a config between the acquisition
\* of the lock and the end of the dispatch, and the with-block of a
\* concurrent subscribe is entirely before or entirely after the dispatch.
C14_DispatchAtomic ==
    /\ DispatchExcludesSubscribe
    /\ [][\A t \in Threads :
              DispatchEnds(t) =>
                  LET fns == Get(callbacks, frame[t].handle, {})
                      invoked == frame'[t].invoked
                  IN IF frame'[t].result = "ok"
                     THEN InvokedExactly(invoked, fns)
                     ELSE /\ frame'[t].result = "CallbackError"
                          /\ InvokedFns(invoked) \subseteq fns
                          /\ \A cb \in InvokedFns(invoked) :
                                 Count(invoked, cb) = 1]_vars

\* a dispatch holds the lock with a callback to call while a subscribe
\* that brings another callback for the same handle waits for the lock
C14_Witness ==
    \E t1, t2 \in Threads :
        /\ pc[t1] = "rn_call" /\ lock = t1
        /\ pc[t2] = "sub_lock"
        /\ frame[t2].value_handle = frame[t1].handle
        /\ frame[t2].callback # None
        /\ frame[t2].callback \notin callbacks[frame[t1].handle]

\* a callback raises in the dispatch of thread t in the step
CallbackRaises(t) ==
    /\ pc[t] = "rn_call" /\ pc'[t] = "done"
    /\ frame'[t].result = "CallbackError"

\* no thread is inside a with-block
NoneInBlock == \A t \in Threads : ~InDispatch(t) /\ ~InSubscribeBlock(t)

\* C15: when a callback raises during receive_notification, the call ends
\* with that failure at once: the raising callback is the last one invoked,
\* the callbacks of the handle not reached yet are not invoked in this
\* dispatch, and the lock is released, so that a subscribe or
\* receive_notification that waits for the lock can take it.
C15_RaisingCallbackEndsDispatch ==
    /\ [][\A t \in Threads :
              CallbackRaises(t) =>
                  /\ Len(frame'[t].invoked) = Len(frame[t].invoked) + 1
                  /\ SubSeq(frame'[t].invoked, 1, Len(frame[t].invoked))
                         = frame[t].invoked
                  /\ lock = t /\ lock' = Unlocked]_vars
    /\ [][\A t \in Threads :
              (Returned(t, "receive_notification") /\ pc'[t] = "done")
                  => frame'[t].invoked = frame[t].invoked]_vars
    /\ [](\A t \in Threads :
              (Returned(t, "receive_notification")
                   /\ frame[t].result = "CallbackError") => lock # t)
    /\ [](NoneInBlock =>
              /\ lock = Unlocked
              /\ \A t \in Threads :
                     /\ pc[t] = "sub_lock" => ENABLED SubLock(t)
                     /\ pc[t] = "rn_lock" => ENABLED RnLock(t))

\* the first of two callbacks of a handle has raised: the dispatch has
\* ended with the other one not invoked, and the lock is free
C15_Witness ==
    \E t \in Threads :
        /\ Returned(t, "receive_notification")
        /\ frame[t].result = "CallbackError"
        /\ Len(frame[t].invoked) = 1
        /\ Cardinality(callbacks[frame[t].handle]) = 2
        /\ lock = Unlocked

\* the step is a step of thread t
Actor(t) == pc'[t] # pc[t] \/ frame'[t] # frame[t]

\* a subscribe or char_write of thread t has ended with the not-found error
EndedNotFound(t) ==
    /\ pc[t] = "done" /\ frame[t].op \in {"subscribe", "char_write"}
    /\ frame[t].result = "BLEError"

\* C16: a subscribe or char_write whose UUID is absent from the table at
\* the lookup after the test (and the rediscovery) of get_handle ends there
\* with the not-found error; up to then the call has not held the lock and
\* has issued no transport write, and none of its steps has changed a
\* callback set or a recorded config: only the handle table may have been
\* replaced.
C16_NotFoundLeavesRegistry ==
    /\ [][\A t \in Threads :
              (Actor(t) /\ pc[t] = "gh_get"
                   /\ frame[t].op \in {"subscribe", "char_write"}
                   /\ frame[t].uuid \notin DOMAIN characteristics)
                  => EndedNotFound(t)']_vars
    /\ [][\A t \in Threads :
              (Actor(t) /\ EndedNotFound(t)') => pc[t] = "gh_get"]_vars
    /\ [][\A t \in Threads :
              (Actor(t) /\ pc[t] \in TablePcs)
                  => /\ callbacks' = callbacks
                     /\ subscribed_handlers' = subscribed_handlers
                     /\ lock' = lock /\ lastWrite' = lastWrite
                     /\ hist' = hist]_vars
    /\ [](\A t \in Threads :
              (pc[t] \in TablePcs \/ EndedNotFound(t))
                  => /\ lock # t
                     /\ frame[t].nwrites = 0 /\ frame[t].wrote = NoWrite
                     /\ frame[t].value_handle = NoHandle)

\* a subscribe that brought a callback has ended with the not-found error
\* after its rediscovery replaced the table; the callback set and config
\* that another subscribe made are in place and its callback is in no set
C16_Witness ==
    \E t \in Threads :
        /\ EndedNotFound(t) /\ frame[t].op = "subscribe"
        /\ frame[t].callback # None
        /\ frame[t].ndiscover = 1
        /\ characteristics = frame[t].table
        /\ DOMAIN callbacks # {} /\ DOMAIN subscribed_handlers # {}
        /\ \A h \in DOMAIN callbacks : frame[t].callback \notin callbacks[h]
        /\ lock = Unlocked

\* C17: subscribing a callback that is already in the callback set of the
\* handle leaves every callback set as it is, whatever the indication; the
\* callback set of a handle is the set of the distinct callbacks subscribed
\* to it; no dispatch invokes a callback more than once, and a dispatch
\* that returns normally after a callback has been subscribed again has
\* invoked that callback exactly once.
C17_SubscribeTwiceAddsOnce ==
    /\ [][\A t \in Threads :
              (Actor(t) /\ pc[t] = "sub_add"
                   /\ frame[t].callback
                          \in Get(callbacks, frame[t].value_handle, {}))
                  => callbacks' = callbacks]_vars
    /\ [](\A h \in Handles : Get(callbacks, h, {}) = hist[h].added)
    /\ [](\A t \in Threads :
              (Returned(t, "receive_notification") /\ frame[t].result = "ok")
                  => \A cb \in frame[t].readded :
                         Count(frame[t].invoked, cb) = 1)
    /\ [](\A t \in Threads, cb \in CallbackFns :
              Count(frame[t].invoked, cb) <= 1)

\* a callback was subscribed to a handle twice, with different indication
\* values, and a dispatch called after that has invoked it once
C17_Witness ==
    \E t \in Threads, cb \in CallbackFns :
        /\ Returned(t, "receive_notification") /\ frame[t].result = "ok"
        /\ cb \in frame[t].readded
        /\ hist[frame[t].handle].changes = 2
        /\ callbacks[frame[t].handle] = {cb}
        /\ Count(frame[t].invoked, cb) = 1
        /\ Len(frame[t].invoked) = 1

\* subscribe of thread t has ended with the failure of its write
WriteFailed(t) ==
    /\ Returned(t, "subscribe") /\ frame[t].result = "TransportError"
    /\ frame[t].nwrites = 1

\* C18: a subscribe whose transport write fails has added its callback to
\* the callback set of the value handle before the write, and the callback
\* stays there although the call ended in an error and recorded no config;
\* a dispatch on the handle that returns normally has invoked every
\* callback added to the set, those of failed subscribes included.
C18_CallbackStaysAfterFailedWrite ==
    /\ [](\A t \in Threads :
              WriteFailed(t) =>
                  /\ frame[t].callback # None =>
                         frame[t].callback
                             \in Get(callbacks, frame[t].value_handle, {})
                  /\ frame[t].after = frame[t].before
                  /\ frame[t].wrote.by = "subscribe" /\ ~frame[t].wrote.ok)
    /\ [][\A t \in Threads :
              (DispatchEnds(t) /\ frame'[t].result = "ok")
                  => \A cb \in hist[frame[t].handle].added :
                         Count(frame'[t].invoked, cb) = 1]_vars

\* the only subscribe that brought the callback failed at its write and no
\* config is recorded for the handle; a dispatch on the handle has invoked
\* the callback
C18_Witness ==
    \E t1, t2 \in Threads :
        /\ WriteFailed(t1) /\ frame[t1].callback # None
        /\ frame[t1].value_handle \notin DOMAIN subscribed_handlers
        /\ Returned(t2, "receive_notification") /\ frame[t2].result = "ok"
        /\ frame[t2].handle = frame[t1].value_handle
        /\ frame[t2].registered = {}
        /\ frame[t2].invoked = <<Invocation(t2, frame[t1].callback)>>

\* thread t is in a call made from a callback of its own dispatch
Nested(t) == frame[t].outer # <<>>

\* the call of thread t made from a callback waits for the lock that the
\* dispatch of the same thread holds
Blocked(t) == Nested(t) /\ pc[t] \in {"sub_lock", "rn_lock"}

\* thread t waits at the entry of a with-block and cannot enter
CannotEnter(t) ==
    /\ pc[t] = "sub_lock" => ~ENABLED SubLock(t)
    /\ pc[t] = "rn_lock" => ~ENABLED RnLock(t)

\* C19: the lock is not re-entrant and is held while callbacks run: a
\* subscribe (once its handle is resolved) or a receive_notification made
\* from a callback during a dispatch waits for the lock its own thread
\* holds and stays there in every later state; the dispatch does not
\* return, the lock stays with that thread, and no thread that comes to
\* the entry of a with-block afterwards gets in.
C19_ReentrantCallBlocksForever ==
    /\ [][\A t \in Threads : Blocked(t) => Blocked(t)' /\ lock' = t]_vars
    /\ [](\A t \in Threads :
              Nested(t) =>
                  /\ (pc[t] # "done") => lock = t
                  /\ pc[t] \in TablePcs \cup {"sub_lock", "rn_lock", "done"}
                  /\ pc[t] = "done" => frame[t].result \in
                                           {"BLEError", "TransportError"}
                  /\ frame[t].outer[1].op = "receive_notification"
                  /\ frame[t].outer[1].result = None)
    /\ [](\A t \in Threads :
              Blocked(t) =>
                  \A t2 \in Threads :
                      /\ CannotEnter(t2)
                      /\ t2 # t => ~InDispatch(t2) /\ ~InSubscribeBlock(t2))

\* a callback has called subscribe during its dispatch and waits for the
\* lock of its own thread, and the subscribe of another thread waits too
C19_Witness ==
    \E t1, t2 \in Threads :
        /\ t1 # t2
        /\ Blocked(t1) /\ frame[t1].op = "subscribe" /\ lock = t1
        /\ Len(frame[t1].outer[1].invoked) = 1
        /\ pc[t2] = "sub_lock" /\ ~Nested(t2)

\* no subscribe call is inside its with-block
NoSubscribeInBlock == \A t \in Threads : ~InSubscribeBlock(t)

\* C20: whenever no subscribe is inside its with-block, the recorded
\* config of every value handle h is set if and only if a write of
\* subscribe to h + 1 has succeeded, and is then the bytes of the most
\* recent such write, whatever subscribes, failed or not, and dispatches
\* have run.
C20_ConfigIsLastSuccessfulWrite ==
    NoSubscribeInBlock =>
        \A h \in Handles :
            /\ h \in DOMAIN subscribed_handlers <=> hist[h].lastOk # NoConfig
            /\ Get(subscribed_handlers, h, NoConfig) = hist[h].lastOk

\* the write for notify succeeded and a later write for indicate failed:
\* the recorded config is the one of the successful write
C20_Witness ==
    \E h \in DOMAIN subscribed_handlers :
        /\ NoSubscribeInBlock
        /\ subscribed_handlers[h] = <<1, 0>>
        /\ hist[h].lastOk = <<1, 0>>
        /\ hist[h].writes = 2
        /\ lastWrite.by = "subscribe" /\ lastWrite.handle = h + 1
        /\ lastWrite.value = <<2, 0>> /\ ~lastWrite.ok

====
